---- MODULE Spec2Model ----
(***************************************************************************)
(* A model of the candidate retrieval and fusion pipeline of               *)
(* evaluation_unique.py: the text normalizers, the query planner, the four *)
(* retrieval strategies, the fusion/deduplication loop and the arbiter     *)
(* (LLM) promotion of get_search_results.                                  *)
(*                                                                         *)
(* Strings are sequences of one-character strings, so that normalization,  *)
(* prefix tests, digit tests and comparisons are computed character by     *)
(* character as the code computes them.  A character outside ASCII is      *)
(* written by its code point ("U+00F6" is o-umlaut).                       *)
(*                                                                         *)
(* Two collaborators are outside the repository and are modelled as        *)
(* oracles whose answers are part of the input: the SQLite FTS5 MATCH      *)
(* operator (each catalog row carries, for the query at hand, whether the  *)
(* strict, broad and rare-term expressions match it) and the rapidfuzz     *)
(* similarity functions (each row carries its similarity values, integers  *)
(* in 0..100, the range the library documents).                            *)
(***************************************************************************)
EXTENDS Integers, Sequences, FiniteSets, TLC

(***************************************************************************)
(* Characters                                                              *)
(***************************************************************************)
Lower ==
    << "a","b","c","d","e","f","g","h","i","j","k","l","m",
       "n","o","p","q","r","s","t","u","v","w","x","y","z" >>

Upper ==
    << "A","B","C","D","E","F","G","H","I","J","K","L","M",
       "N","O","P","Q","R","S","T","U","V","W","X","Y","Z" >>

Digits == << "0","1","2","3","4","5","6","7","8","9" >>

Range(s) == { s[i] : i \in DOMAIN s }

LowerSet == Range(Lower)

UpperSet == Range(Upper)

DigitSet == Range(Digits)

\* str.lower() on one character
ToLower(c) ==
    IF c \in UpperSet THEN Lower[CHOOSE i \in DOMAIN Upper : Upper[i] = c] ELSE c

\* str.upper() on one character
ToUpper(c) ==
    IF c \in LowerSet THEN Upper[CHOOSE i \in DOMAIN Lower : Lower[i] = c] ELSE c

\* The characters of the model in code point order (SQLite compares TEXT
\* values byte by byte).
CodeOrder == << " ", "-", ".", "0","1","2","3","4","5","6","7","8","9", ":", "?" >>
                 \o Upper \o Lower

Ord(c) == CHOOSE i \in DOMAIN CodeOrder : CodeOrder[i] = c

\* a <= b for TEXT values under SQLite's default BINARY collation
RECURSIVE TextLeq(_, _)
TextLeq(a, b) ==
    IF a = << >> THEN TRUE
    ELSE IF b = << >> THEN FALSE
    ELSE IF Head(a) = Head(b) THEN TextLeq(Tail(a), Tail(b))
    ELSE Ord(Head(a)) < Ord(Head(b))

\* str.isdigit()
isdigit(s) == s # << >> /\ \A i \in DOMAIN s : s[i] \in DigitSet

DigitVal(c) == (CHOOSE i \in DOMAIN Digits : Digits[i] = c) - 1

\* int(s) for a string of decimal digits
RECURSIVE ToInt(_)
ToInt(s) ==
    IF s = << >> THEN 0
    ELSE 10 * ToInt(SubSeq(s, 1, Len(s) - 1)) + DigitVal(s[Len(s)])

\* str(n) for 0 <= n <= 9999, as the four-digit years of the code are
ToStr(n) ==
    << Digits[(n \div 1000) + 1], Digits[((n \div 100) % 10) + 1],
       Digits[((n \div 10) % 10) + 1], Digits[(n % 10) + 1] >>

RECURSIVE FlatMap(_, _)
FlatMap(F(_), s) ==
    IF s = << >> THEN << >> ELSE F(Head(s)) \o FlatMap(F, Tail(s))

Map(F(_), s) == [i \in DOMAIN s |-> F(s[i])]

\* str.split(): the maximal runs of non-space characters
RECURSIVE SplitAcc(_, _, _)
SplitAcc(s, cur, acc) ==
    IF s = << >> THEN (IF cur = << >> THEN acc ELSE Append(acc, cur))
    ELSE IF Head(s) = " "
         THEN SplitAcc(Tail(s), << >>, IF cur = << >> THEN acc ELSE Append(acc, cur))
         ELSE SplitAcc(Tail(s), Append(cur, Head(s)), acc)

split(s) == SplitAcc(s, << >>, << >>)

\* " ".join(tokens)
RECURSIVE join(_)
join(toks) ==
    IF toks = << >> THEN << >>
    ELSE IF Len(toks) = 1 THEN toks[1]
    ELSE toks[1] \o << " " >> \o join(Tail(toks))

\* re.sub(r"\s+", " ", text).strip()
CollapseStrip(s) == join(split(s))

(***************************************************************************)
(* Text normalizer                                                         *)
(***************************************************************************)
\* re.sub(r"[^a-zA-Z0-9]", "", vd_id).lower()
normalize_db_vd_id(vd_id) ==
    Map(ToLower, SelectSeq(vd_id, LAMBDA c : c \in LowerSet \cup UpperSet \cup DigitSet))

\* unicodedata.normalize("NFKD", c): o-umlaut decomposes into o and the
\* combining diaeresis; long s is compatibility-equivalent to s.
NFKD(c) ==
    IF c = "U+00F6" THEN << "o", "U+0308" >>
    ELSE IF c = "U+017F" THEN << "s" >>
    ELSE << c >>

combining(c) == c = "U+0308"

\* .replace of sharp s, ae and oe ligatures
Ligature(c) ==
    IF c = "U+00DF" THEN << "s", "s" >>
    ELSE IF c = "U+00E6" THEN << "a", "e" >>
    ELSE IF c = "U+0153" THEN << "o", "e" >>
    ELSE << c >>

\* the class [-–—.,:;]
IsPunct(c) == c \in { "-", "U+2013", "U+2014", ".", ",", ":", ";" }

\* \w after lowercasing, over the characters of the model
IsWordChar(c) == c \in LowerSet \cup UpperSet \cup DigitSet \cup { "_" }

\* One \w-run under re.sub(r"\b([a-z]{5,})(ns|s)\b", r"\1"): the first group is
\* greedy, so a run of ASCII letters of length >= 6 ending in s loses that s.
StripWord(w) ==
    IF Len(w) >= 6 /\ (\A i \in DOMAIN w : w[i] \in LowerSet) /\ w[Len(w)] = "s"
    THEN SubSeq(w, 1, Len(w) - 1)
    ELSE w

RECURSIVE StripAcc(_, _, _)
StripAcc(s, word, out) ==
    IF s = << >> THEN out \o StripWord(word)
    ELSE IF IsWordChar(Head(s))
         THEN StripAcc(Tail(s), Append(word, Head(s)), out)
         ELSE StripAcc(Tail(s), << >>, out \o StripWord(word) \o << Head(s) >>)

StripSuffix(s) == StripAcc(s, << >>, << >>)

basic_normalize(text) ==
    IF text = << >> THEN << >>
    ELSE LET t1 == SelectSeq(FlatMap(NFKD, text), LAMBDA c : ~combining(c))
             t2 == Map(ToLower, t1)
             t3 == FlatMap(Ligature, t2)
             t4 == Map(LAMBDA c : IF IsPunct(c) THEN " " ELSE c, t3)
             t5 == StripSuffix(t4)
             t6 == Map(LAMBDA c : IF c \in LowerSet \cup DigitSet \cup { " " }
                                   THEN c ELSE " ", t5)
         IN  CollapseStrip(t6)

ABBREVIATIONS ==
    << << <<"e","v","a","n","g","e","l">>,
          <<"e","v","a","n","g","e","l","i","s","c","h","e">> >>,
       << <<"h","i","s","t">>,
          <<"h","i","s","t","o","r","i","e">> >>,
       << <<"m","a","t","h">>,
          <<"m","a","t","h","e","m","a","t","i","k">> >>,
       << <<"t","h","e","o","l">>,
          <<"t","h","e","o","l","o","g","i","e">> >>,
       << <<"j","u","r">>,
          <<"j","u","r","i","s","t","i","s","c","h","e">> >>,
       << <<"m","e","d">>,
          <<"m","e","d","i","z","i","n">> >>,
       << <<"p","h","i","l">>,
          <<"p","h","i","l","o","s","o","p","h","i","e">> >>,
       << <<"b","o","t">>,
          <<"b","o","t","s","c","h","a","f","t">> >> >>

expand_abbreviations(text) ==
    LET resolve(t) ==
            LET clean_t == SelectSeq(t, LAMBDA c : c # ".")
            IN  IF \E i \in DOMAIN ABBREVIATIONS : ABBREVIATIONS[i][1] = clean_t
                THEN ABBREVIATIONS[CHOOSE i \in DOMAIN ABBREVIATIONS :
                                       ABBREVIATIONS[i][1] = clean_t][2]
                ELSE t
    IN  join(Map(resolve, split(text)))

normalize_for_fts(text) == CollapseStrip(expand_abbreviations(basic_normalize(text)))

normalize_for_fuzz(text) == basic_normalize(text)

(***************************************************************************)
(* Parameters (evaluation_unique.py, lines 30-40)                          *)
(***************************************************************************)
MIN_FTS_TOKEN_LEN == 3

STRICT_MAX_TOKENS == 4

BROAD_MAX_TOKENS == 8

MIN_ACCEPT_SCORE == 50

YEAR_BONUS_EXACT == 15

YEAR_BONUS_CLOSE == 5

AUTHOR_BONUS == 15

PLACE_BONUS == 10

VD18_PREF_BONUS == 5

ENTITY_BONUS == 5

\* The entries of STOPWORDS that a normalized token can equal.  The five
\* entries with a character outside [a-z0-9] (a-umlaut, u-umlaut, "mr-") are
\* left out: normalization maps every token into [a-z0-9]+.
STOPWORDS ==
    { <<"d","e","r">>, <<"d","i","e">>, <<"d","a","s">>, <<"u","n","d">>,
      <<"o","d","e","r">>, <<"v","o","n">>, <<"z","u">>, <<"i","m">>, <<"i","n">>,
      <<"a","n">>, <<"a","u","f">>, <<"h","e","r","r","n">>, <<"h","e","r","r">>,
      <<"g","e","o","r","g","i","i">>, <<"g","e","o","r","g">>, <<"j","o","h">>,
      <<"j","a","c">>, <<"e","t">>, <<"c","u","m">>, <<"d","e">>, <<"o","p","u","s">>,
      <<"t","o","m","u","s">>, <<"p","a","r","s">>, <<"l","i","b","e","r">>,
      <<"t","r","a","c","t","a","t","u","s">>,
      <<"d","i","s","s","e","r","t","a","t","i","o">>, <<"v","o","l">>, <<"c","a","p">>,
      <<"t","i","t">>, <<"p","a","g">>, <<"e","t","c">>, <<"b","e","y">>,
      <<"a","l","l","h","i","e","r">>, <<"h","a","b","e","n">>, <<"s","i","n","d">>,
      <<"i","s","t">>, <<"e","i","n","e">>, <<"e","i","n","e","r">>, <<"e","i","n">>,
      <<"n","e","u","e">>, <<"m","r">>, <<"a","u","s">>, <<"d","e","m">>, <<"d","e","n">>,
      <<"d","e","s">>, <<"s","t","u","c","k">>, <<"i","t","e","m">>,
      <<"t","h","e","i","l">>, <<"b","a","n","d">>, <<"g","e","g","e","n">>,
      <<"n","a","c","h">> }

(***************************************************************************)
(* Python values                                                           *)
(***************************************************************************)
\* None, and a key that a dict does not hold
None == << "<None>" >>

\* the truth value of a str-or-None
Truthy(v) == v # None /\ v # << >>

Min(a, b) == IF a < b THEN a ELSE b

Abs(n) == IF n < 0 THEN -n ELSE n

\* s[:n]
Take(s, n) == SubSeq(s, 1, Min(n, Len(s)))

\* list.sort(key=K, reverse=True): stable, so equal keys keep their order
RECURSIVE InsertDesc(_, _, _)
InsertDesc(K(_), x, s) ==
    IF s = << >> THEN << x >>
    ELSE IF K(x) > K(Head(s)) THEN << x >> \o s
    ELSE << Head(s) >> \o InsertDesc(K, x, Tail(s))

RECURSIVE SortDesc(_, _)
SortDesc(K(_), s) ==
    IF s = << >> THEN << >>
    ELSE InsertDesc(K, s[Len(s)], SortDesc(K, SubSeq(s, 1, Len(s) - 1)))

\* sep.join(tokens)
RECURSIVE JoinWith(_, _)
JoinWith(toks, sep) ==
    IF toks = << >> THEN << >>
    ELSE IF Len(toks) = 1 THEN toks[1]
    ELSE toks[1] \o sep \o JoinWith(Tail(toks), sep)

\* the elements of s without repetition, in order of first occurrence
RECURSIVE Dedup(_)
Dedup(s) ==
    IF s = << >> THEN << >>
    ELSE LET d == Dedup(SubSeq(s, 1, Len(s) - 1))
         IN  IF s[Len(s)] \in Range(d) THEN d ELSE Append(d, s[Len(s)])

(***************************************************************************)
(* Query planner                                                           *)
(***************************************************************************)
\* bibl_item: a dict with optional keys author, title, year, place
build_query_string(bibl_item) ==
    LET get_val(key) == bibl_item[key]
        p1 == IF bibl_item.author # None THEN << get_val("author") >> ELSE << >>
        p2 == IF bibl_item.title # None THEN << get_val("title") >> ELSE << >>
        p3 == IF bibl_item.year # None THEN << get_val("year") >> ELSE << >>
    IN  [ query  |-> join(p1 \o p2 \o p3),
          place  |-> IF bibl_item.place # None THEN get_val("place") ELSE << >>,
          author |-> IF bibl_item.author # None THEN get_val("author") ELSE << >> ]

\* \w on the raw query: letters of any script, digits and the underscore
IsRawWordChar(c) ==
    IsWordChar(c) \/ c \in { "U+00F6", "U+00DF", "U+00E6", "U+0153", "U+017F" }

\* re.search(r"\b(1[4-9]\d{2})\b", query): the leftmost match, or None
extract_query_year(query) ==
    LET IsYearAt(i) ==
            /\ i + 3 <= Len(query)
            /\ query[i] = "1"
            /\ query[i + 1] \in { "4", "5", "6", "7", "8", "9" }
            /\ query[i + 2] \in DigitSet
            /\ query[i + 3] \in DigitSet
            /\ (i = 1 \/ ~IsRawWordChar(query[i - 1]))
            /\ (i + 3 = Len(query) \/ ~IsRawWordChar(query[i + 4]))
        hits == { i \in DOMAIN query : IsYearAt(i) }
    IN  IF hits = { } THEN None
        ELSE LET i == CHOOSE j \in hits : \A k \in hits : j <= k
             IN  SubSeq(query, i, i + 3)

\* Returns <<strict_q, broad_q>>.  sorted(list(set(toks)), key=len, reverse=True)
\* leaves the order of tokens of equal length to the set's iteration order; the
\* model takes the order of first occurrence.  Which rows an expression matches
\* is the index's answer (m_strict, m_broad), so only the emptiness of the two
\* expressions is read from here.
build_fts_queries(norm_query_fts) ==
    LET toks == SelectSeq(split(norm_query_fts),
                          LAMBDA t : ~(t \in STOPWORDS \/ isdigit(t)
                                       \/ Len(t) < MIN_FTS_TOKEN_LEN))
        sorted == SortDesc(Len, Dedup(toks))
    IN  << JoinWith(Take(sorted, STRICT_MAX_TOKENS), << " ", "A", "N", "D", " " >>),
           JoinWith(Take(sorted, BROAD_MAX_TOKENS), << " ", "O", "R", " " >>) >>

(***************************************************************************)
(* Index Store (the vd18 FTS5 table, read only)                            *)
(*                                                                         *)
(* A row of the table: vd_id, clean_author, year and place are the stored  *)
(* columns.  clean_title is not stored in the model; what the code reads   *)
(* of it are the answers of the two external collaborators, which the row  *)
(* carries for the query at hand:                                          *)
(*   terms      the query tokens FTS5 finds in the row's search_text       *)
(*   label_has  the lowercased query entities that are substrings of       *)
(*              normalize_for_fuzz(author + " " + title)                   *)
(*   tsr        fuzz.token_set_ratio(norm_query_fuzz, norm_db_label)       *)
(*   pr_author  fuzz.partial_ratio(norm(db_author), norm_query_fuzz)       *)
(*   pr_place   fuzz.partial_ratio(norm(query_place), norm(db_place))      *)
(*   wratio     fuzz.WRatio(norm_query_fuzz, norm(db_title))               *)
(*   pr_qauth   fuzz.partial_ratio(norm(query_author), norm(db_title))     *)
(***************************************************************************)
AND == << "A", "N", "D" >>

OR == << "O", "R" >>

\* vd18 MATCH fts_query: a conjunction or a disjunction of tokens
Matches(row, fts_query) ==
    LET words == split(fts_query)
        toks == SelectSeq(words, LAMBDA w : w # AND /\ w # OR)
    IN  IF AND \in Range(words)
        THEN \A i \in DOMAIN toks : toks[i] \in row.terms
        ELSE \E i \in DOMAIN toks : toks[i] \in row.terms

\* Run 1's SELECT.  The table's order stands for bm25's; with a year the rows
\* of that year come first, then those one year off.
sql_search(conn, fts_query, year) ==
    LET hit == SelectSeq(conn, LAMBDA row : Matches(row, fts_query))
    IN  IF Truthy(year) /\ isdigit(year)
        THEN LET y == ToInt(year)
                 w(row) == IF row.year = ToStr(y) THEN 2
                           ELSE IF row.year = ToStr(y - 1) \/ row.year = ToStr(y + 1)
                                THEN 1 ELSE 0
             IN  Take(SortDesc(w, hit), 500)
        ELSE Take(hit, 500)

(***************************************************************************)
(* Retrieval strategies                                                    *)
(***************************************************************************)
\* a faulty Clamp: the score is stored as computed
Clamp_absent(score) == score

\* min(score, 100)
Clamp(score) == Min(score, 100)

Candidate(vd_id, score, source) ==
    [ vd_id |-> vd_id, vd_id_norm |-> normalize_db_vd_id(vd_id),
      score |-> Clamp(score), source |-> source ]

\* Run 1, one iteration of process(): the candidate appended for the row, if any
process_row(row, strict_mode, query_year, query_place) ==
    LET has_dy == Truthy(query_year) /\ Truthy(row.year) /\ isdigit(row.year)
        dy == Abs(ToInt(query_year) - ToInt(row.year))
        s0 == row.tsr
        s1 == IF has_dy /\ s0 > 60
              THEN IF dy = 0 THEN s0 + YEAR_BONUS_EXACT
                   ELSE IF dy = 1 THEN s0 + YEAR_BONUS_CLOSE ELSE s0
              ELSE s0
        s2 == IF has_dy /\ ~strict_mode /\ dy > 1 /\ s1 < 92
              THEN s1 - Min(dy, 15) ELSE s1
        s3 == IF Truthy(row.clean_author) /\ row.pr_author >= 90
              THEN s2 + AUTHOR_BONUS ELSE s2
        s4 == IF Truthy(query_place) /\ Truthy(row.place) /\ row.pr_place > 85
              THEN s3 + PLACE_BONUS ELSE s3
    IN  IF ~Truthy(row.vd_id) THEN << >>
        ELSE IF has_dy /\ strict_mode /\ dy > 1 THEN << >>
        ELSE IF s4 >= MIN_ACCEPT_SCORE THEN << Candidate(row.vd_id, s4, "RUN_1") >>
        ELSE << >>

process(rows, strict_mode, query_year, query_place) ==
    FlatMap(LAMBDA row : process_row(row, strict_mode, query_year, query_place), rows)

Score(c) == c.score

\* Run 1's strict pass (line 176 and the sort of line 178)
strict_pass(conn, strict_q, query_year, query_place) ==
    SortDesc(Score,
             IF Truthy(strict_q)
             THEN process(sql_search(conn, strict_q, query_year), TRUE,
                          query_year, query_place)
             ELSE << >>)

\* a faulty line 179: the broad pass does not ask for a broad expression
runs_broad_unguarded(candidates, broad_q) ==
    candidates = << >> \/ candidates[1].score < 95

\* a faulty line 179: the broad pass runs unless the strict pass found a
\* candidate of score 100
runs_broad_below_100(candidates, broad_q) ==
    (candidates = << >> \/ candidates[1].score < 100) /\ Truthy(broad_q)

\* the condition of line 179
runs_broad(candidates, broad_q) ==
    (candidates = << >> \/ candidates[1].score < 95) /\ Truthy(broad_q)

execute_run_1(conn, strict_q, broad_q, query_year, query_place) ==
    LET candidates == strict_pass(conn, strict_q, query_year, query_place)
    IN  IF runs_broad(candidates, broad_q)
        THEN LET cands_broad == process(sql_search(conn, broad_q, None), FALSE,
                                        query_year, query_place)
                 existing == { candidates[i].vd_id_norm : i \in DOMAIN candidates }
             IN  SortDesc(Score,
                          candidates \o SelectSeq(cands_broad,
                                                  LAMBDA c : c.vd_id_norm \notin existing))
        ELSE SortDesc(Score, candidates)

\* Run 2's SELECT: MATCH and year >= ? AND year <= ?, compared as TEXT
run_2_rows(conn, broad_q, y) ==
    Take(SelectSeq(conn, LAMBDA row : /\ Matches(row, broad_q)
                                      /\ TextLeq(ToStr(y - 3), row.year)
                                      /\ TextLeq(row.year, ToStr(y + 3))), 300)

\* the guard of line 190
run_2_inputs_present(broad_q, query_year, query_author) ==
    Truthy(broad_q) /\ Truthy(query_year) /\ Truthy(query_author)

\* a faulty guard of line 198: any author hint activates Run 2
run_2_author_any(norm_q_auth) == TRUE

\* the guard of line 198
run_2_author_long_enough(norm_q_auth) == Len(norm_q_auth) >= 4

\* the rows of Run 2's loop that reach line 207
run_2_scored(rows) ==
    SelectSeq(rows, LAMBDA row : /\ Truthy(row.vd_id)
                                 /\ ~Truthy(row.clean_author)
                                 /\ row.pr_qauth > 90)

\* int(db_year) of line 208 raises ValueError
run_2_raises(conn, broad_q, query_year, query_author) ==
    /\ run_2_inputs_present(broad_q, query_year, query_author)
    /\ run_2_author_long_enough(normalize_for_fuzz(query_author))
    /\ \E row \in Range(run_2_scored(run_2_rows(conn, broad_q, ToInt(query_year)))) :
           ~isdigit(row.year)

\* the list execute_run_2 returns when it does not raise
execute_run_2(conn, broad_q, query_year, query_author) ==
    IF ~run_2_inputs_present(broad_q, query_year, query_author) THEN << >>
    ELSE IF ~run_2_author_long_enough(normalize_for_fuzz(query_author)) THEN << >>
    ELSE LET y == ToInt(query_year)
             one(row) ==
                 LET dy == Abs(y - ToInt(row.year))
                     s0 == row.wratio + 30
                     s1 == IF dy > 0 THEN s0 - dy ELSE s0
                 IN  IF s1 >= MIN_ACCEPT_SCORE
                     THEN << Candidate(row.vd_id, s1, "RUN_2") >> ELSE << >>
         IN  FlatMap(one, run_2_scored(run_2_rows(conn, broad_q, y)))

\* the maximal \w-runs of a raw string
RECURSIVE WordsAcc(_, _, _)
WordsAcc(s, cur, acc) ==
    IF s = << >> THEN (IF cur = << >> THEN acc ELSE Append(acc, cur))
    ELSE IF ~IsRawWordChar(Head(s))
         THEN WordsAcc(Tail(s), << >>, IF cur = << >> THEN acc ELSE Append(acc, cur))
         ELSE WordsAcc(Tail(s), Append(cur, Head(s)), acc)

\* re.findall(r'\b[A-Z][a-z]{3,}\b', raw_query) without the stop words
entities(raw_query) ==
    SelectSeq(WordsAcc(raw_query, << >>, << >>),
              LAMBDA w : /\ Len(w) >= 4
                         /\ w[1] \in UpperSet
                         /\ \A i \in 2..Len(w) : w[i] \in LowerSet
                         /\ Map(ToLower, w) \notin STOPWORDS)

\* vd_id.upper().startswith(prefix)
upper_startswith(vd_id, prefix) ==
    /\ Len(vd_id) >= Len(prefix)
    /\ Map(ToUpper, SubSeq(vd_id, 1, Len(prefix))) = prefix

execute_run_3(conn, broad_q, raw_query) ==
    IF ~Truthy(broad_q) THEN << >>
    ELSE LET rows == Take(SelectSeq(conn, LAMBDA row : Matches(row, broad_q)), 200)
             ents == entities(raw_query)
             one(row) ==
                 LET hits == Cardinality({ i \in DOMAIN ents :
                                             Map(ToLower, ents[i]) \in row.label_has })
                     s0 == row.tsr + hits * ENTITY_BONUS
                     s1 == IF upper_startswith(row.vd_id, << "V", "D", "1", "8" >>)
                           THEN s0 + VD18_PREF_BONUS ELSE s0
                 IN  IF ~Truthy(row.vd_id) THEN << >>
                     ELSE IF s1 >= MIN_ACCEPT_SCORE
                          THEN << Candidate(row.vd_id, s1, "RUN_3") >> ELSE << >>
         IN  SortDesc(Score, FlatMap(one, rows))

\* line 252
run_4_tokens(norm_query_fts) ==
    SelectSeq(split(norm_query_fts), LAMBDA t : Len(t) >= 5 /\ t \notin STOPWORDS)

execute_run_4(conn, norm_query_fts) ==
    LET tokens == run_4_tokens(norm_query_fts)
        top_terms == Take(SortDesc(Len, tokens), 3)
        fts_query == JoinWith(top_terms, << " ", "O", "R", " " >>)
        rows == Take(SelectSeq(conn, LAMBDA row : Matches(row, fts_query)), 100)
        one(row) ==
            IF ~Truthy(row.vd_id) THEN << >>
            ELSE IF row.tsr >= 65
                 THEN << Candidate(row.vd_id, row.tsr, "RUN_4") >> ELSE << >>
    IN  IF tokens = << >> THEN << >>
        ELSE SortDesc(Score, FlatMap(one, rows))

\* The statements each strategy hands to c.execute, in the order of the calls.
\* lines 176 and 180
run_1_lookups(conn, strict_q, broad_q, query_year, query_place) ==
    (IF Truthy(strict_q) THEN << "RUN_1_STRICT" >> ELSE << >>)
    \o (IF runs_broad(strict_pass(conn, strict_q, query_year, query_place), broad_q)
        THEN << "RUN_1_BROAD" >> ELSE << >>)

\* line 194, which precedes the guard of line 198
run_2_lookups(broad_q, query_year, query_author) ==
    IF run_2_inputs_present(broad_q, query_year, query_author)
    THEN << "RUN_2" >> ELSE << >>

\* line 219
run_3_lookups(broad_q) == IF Truthy(broad_q) THEN << "RUN_3" >> ELSE << >>

\* line 262
run_4_lookups(norm_query_fts) ==
    IF run_4_tokens(norm_query_fts) # << >> THEN << "RUN_4" >> ELSE << >>

(***************************************************************************)
(* Inputs: the queries and the catalog contents the model runs on          *)
(***************************************************************************)
\* the longest catalog the model enumerates row by row
MaxRows == 2

\* final_list[:25], the candidates shown to the arbiter
TOP_CANDS == 25

frolich == << "f", "r", "o", "l", "i", "c", "h" >>

peste == << "p", "e", "s", "t", "e" >>

Authors == { None, << "J", ".", "S", "." >>, << "F", "r", "U+00F6", "l", "i", "c", "h" >> }

\* "12345" is a title no token of which the planner keeps, but which Run 4 uses
Titles ==
    { << "D", "e" >>, << "D", "e", " ", "P", "e", "s", "t", "e" >>,
      << "1", "2", "3", "4", "5" >> }

Years == { None, << "1", "7", "0", "0" >>, << "1", "7", "0", "1" >> }

Places == { None, << "J", "e", "n", "a" >> }

QueryPool == [ author : Authors, title : Titles, year : Years, place : Places ]

Row(vd_id, clean_author, year, place, terms, label_has, tsr, pr_author, pr_place, wratio, pr_qauth) ==
    [ vd_id |-> vd_id, clean_author |-> clean_author, year |-> year, place |-> place,
      terms |-> terms, label_has |-> label_has, tsr |-> tsr, pr_author |-> pr_author,
      pr_place |-> pr_place, wratio |-> wratio, pr_qauth |-> pr_qauth ]

jena == << "j", "e", "n", "a" >>

\* "VD18 9" and "VD189" normalize to the same key, as do "VD17 3:1" and "vd17-31"
RowPool ==
    { Row(<< "V","D","1","8"," ","9" >>, frolich, << "1","7","0","1" >>, jena,
          { frolich, peste }, { peste }, 100, 100, 100, 90, 0),
      Row(<< "V","D","1","8","9" >>, << >>, << "1","7","0","1" >>, << >>,
          { peste }, { peste }, 70, 0, 0, 100, 95),
      Row(<< "V","D","1","7"," ","3",":","1" >>, frolich, << "1","6","5","0" >>, jena,
          { frolich, peste }, { peste }, 95, 100, 60, 95, 0),
      Row(<< "v","d","1","7","-","3","1" >>, << >>, << >>, << >>,
          { peste }, { }, 60, 0, 0, 100, 95),
      Row(<< "V","D","1","8"," ","8" >>, << >>, << "1","6","x","x" >>, << >>,
          { peste }, { peste }, 55, 0, 0, 50, 95),
      Row(<< >>, frolich, << "1","7","0","1" >>, jena,
          { frolich, peste }, { peste }, 100, 100, 100, 100, 100),
      Row(<< "V","D","1","6"," ","A","1" >>, << "o","t","h","e","r" >>,
          << "1","7","0","4" >>, << >>,
          { peste, << "1","2","3","4","5" >> }, { }, 66, 0, 0, 40, 0),
      Row(<< "V","D","1","8"," ","7" >>, frolich, << "1","6","5","0" >>, << >>,
          { frolich }, { }, 55, 95, 0, 30, 0) }

SmallCatalogs == UNION { [1..n -> RowPool] : n \in 0..MaxRows }

\* A catalog with one more matching record than the arbiter is shown: records
\* "VD18 01" .. "VD18 26", anonymous and undated, of decreasing similarity.
BigCatalog ==
    [ i \in 1..(TOP_CANDS + 1) |->
        Row(<< "V","D","1","8"," ", Digits[(i \div 10) + 1], Digits[(i % 10) + 1] >>,
            << >>, << >>, << >>, { frolich, peste }, { }, 100 - i, 0, 0, 0, 0) ]

Catalogs == SmallCatalogs \cup { BigCatalog }

\* the sentinel of the prompt's rule 6
NONE == << "N", "O", "N", "E" >>

\* What model.generate_content can answer: an exception, a text that is not
\* JSON, JSON that is not an object, an object without the key, or an object
\* naming the sentinel, an identifier of the catalog or any other identifier.
Responses(conn) ==
    [ kind : { "api_error", "not_json", "not_object", "no_key" },
      best_match_vd_id : { None } ]
    \cup [ kind : { "object" },
           best_match_vd_id : { NONE, << "V","D","1","8"," ","0" >> }
                              \cup { row.vd_id : row \in RowPool }
                              \cup { conn[i].vd_id : i \in DOMAIN conn } ]

(***************************************************************************)
(* State of one call get_search_results(query, db_path, place, author)     *)
(***************************************************************************)
VARIABLES
    bibl_item,      \* the test-set item the query is built from
    conn,           \* the rows of the vd18 table
    pc,             \* the position in get_search_results
    query,          \* the three results of build_query_string
    query_place,
    query_author,
    query_year,     \* lines 342-345
    norm_query_fts,
    strict_q,
    broad_q,
    r1, r2, r3, r5, \* the strategies' lists; their elements are the dicts that
                    \* final_map and final_list refer to
    all_results,    \* references <<k, j>> to the j-th dict of the k-th list
    exclude_vd17,
    final_map,      \* the dict of line 354 in insertion order: [vid, r]
    idx,            \* the position of the loop of line 361 in all_results
    final_list,     \* references, in list order
    response,       \* the arbiter's answer
    winner,
    llm_winner_id,
    executed        \* the statements handed to c.execute so far

vars ==
    << bibl_item, conn, pc, query, query_place, query_author, query_year,
       norm_query_fts, strict_q, broad_q, r1, r2, r3, r5, all_results, exclude_vd17,
       final_map, idx, final_list, response, winner, llm_winner_id, executed >>

inputs == << bibl_item, conn, query, query_place, query_author >>

plan == << query_year, norm_query_fts, strict_q, broad_q >>

fusion == << all_results, exclude_vd17, final_map, idx >>

arbiter == << response, winner, llm_winner_id >>

\* the dict a reference points to
ObjIn(lists, ref) == lists[ref[1]][ref[2]]

Obj(ref) == ObjIn(<< r1, r2, r3, r5 >>, ref)

Refs(k, list) == [j \in DOMAIN list |-> << k, j >>]

\* the list get_search_results returns, as the caller reads it
FinalList == [i \in DOMAIN final_list |-> Obj(final_list[i])]

Init ==
    /\ bibl_item \in QueryPool
    /\ conn \in Catalogs
    /\ query = build_query_string(bibl_item).query
    /\ query_place = build_query_string(bibl_item).place
    /\ query_author = build_query_string(bibl_item).author
    /\ pc = "plan"
    /\ query_year = None
    /\ norm_query_fts = << >>
    /\ strict_q = << >>
    /\ broad_q = << >>
    /\ r1 = << >> /\ r2 = << >> /\ r3 = << >> /\ r5 = << >>
    /\ all_results = << >>
    /\ exclude_vd17 = FALSE
    /\ final_map = << >>
    /\ idx = 1
    /\ final_list = << >>
    /\ response = [ kind |-> "none", best_match_vd_id |-> None ]
    /\ winner = None
    /\ llm_winner_id = << "-" >>
    /\ executed = << >>

(***************************************************************************)
(* Fusion and deduplication (lines 354-373)                                *)
(***************************************************************************)
\* str.startswith
startswith(s, prefix) ==
    Len(s) >= Len(prefix) /\ SubSeq(s, 1, Len(prefix)) = prefix

\* line 358
era_filter_on(year) == Truthy(year) /\ isdigit(year) /\ ToInt(year) > 1700

\* a faulty era test: the prefix is looked for in the identifier as stored
era_excluded_raw(r, exclude) ==
    exclude /\ startswith(r.vd_id, << "v", "d", "1", "7" >>)

\* line 363, for the candidate dict r
era_excluded(r, exclude) ==
    exclude /\ startswith(r.vd_id_norm, << "v", "d", "1", "7" >>)

\* faulty comparisons of line 369: the last candidate of a key is kept; the
\* lower score is kept; on equal scores the later candidate is kept
replaces_always(r, recorded) == TRUE

replaces_lower(r, recorded) == r.score < recorded.score

replaces_or_equal(r, recorded) == r.score >= recorded.score

\* line 369: the candidate r takes the place of the one recorded for its key
replaces(r, recorded) == r.score > recorded.score

\* a faulty loop body: every candidate is recorded, its key seen before or not
FuseItem_no_dedup(fm, ref, exclude) ==
    IF era_excluded(Obj(ref), exclude) THEN fm
    ELSE Append(fm, [ vid |-> Obj(ref).vd_id_norm, r |-> ref ])

\* one iteration of the loop of line 361, for the reference ref
FuseItem(fm, ref, exclude) ==
    LET r == Obj(ref)
        vid == r.vd_id_norm
    IN  IF era_excluded(r, exclude) THEN fm
        ELSE IF \A i \in DOMAIN fm : fm[i].vid # vid
             THEN Append(fm, [ vid |-> vid, r |-> ref ])
             ELSE LET i == CHOOSE j \in DOMAIN fm : fm[j].vid = vid
                  IN  IF replaces(r, Obj(fm[i].r)) THEN [fm EXCEPT ![i].r = ref] ELSE fm

\* the whole loop over a list of references
RECURSIVE Fuse(_, _)
Fuse(refs, exclude) ==
    IF refs = << >> THEN << >>
    ELSE FuseItem(Fuse(SubSeq(refs, 1, Len(refs) - 1), exclude), refs[Len(refs)], exclude)

\* a faulty line 373: the values are left in insertion order
sorted_values_unsorted(fm) == [i \in DOMAIN fm |-> fm[i].r]

\* lines 372-373: list(final_map.values()) sorted by descending score
sorted_values(fm) ==
    SortDesc(LAMBDA ref : Obj(ref).score, [i \in DOMAIN fm |-> fm[i].r])

(***************************************************************************)
(* Arbiter (execute_llm_judgment, lines 280-338)                           *)
(***************************************************************************)
\* the exception the body of the try statement raises on a response, or "none"
raised_in_try(resp) ==
    IF resp.kind = "api_error" THEN "Exception"           \* generate_content
    ELSE IF resp.kind = "not_json" THEN "JSONDecodeError" \* json.loads
    ELSE IF resp.kind = "not_object" THEN "AttributeError" \* result.get
    ELSE "none"

\* except Exception as e
caught(exc) == exc \in { "Exception", "JSONDecodeError", "AttributeError" }

\* result.get("best_match_vd_id", "NONE")
winner_id_of(resp) ==
    IF resp.kind = "no_key" THEN NONE ELSE resp.best_match_vd_id

\* a faulty line 331: the identifier is not looked up among the candidates
accepted_winner_unchecked(winner_id, top_candidates) == winner_id # NONE

\* line 331
accepted_winner(winner_id, top_candidates) ==
    /\ winner_id # NONE
    /\ \E i \in DOMAIN top_candidates : top_candidates[i].vd_id = winner_id

\* the value execute_llm_judgment returns when no exception leaves it
execute_llm_judgment(top_candidates, resp) ==
    IF top_candidates = << >> THEN None
    ELSE IF raised_in_try(resp) # "none" THEN None
    ELSE IF accepted_winner(winner_id_of(resp), top_candidates)
         THEN winner_id_of(resp) ELSE None

\* an exception leaves execute_llm_judgment
llm_judgment_raises(top_candidates, resp) ==
    /\ top_candidates # << >>
    /\ raised_in_try(resp) # "none"
    /\ ~caught(raised_in_try(resp))

\* line 289, which follows the early return of line 281
llm_lookups(top_candidates) ==
    IF top_candidates # << >> THEN << "LLM" >> ELSE << >>

\* the dict after lines 385-386
promoted(item) == [item EXCEPT !.score = 100, !.source = item.source \o "+LLM"]

(***************************************************************************)
(* Steps of get_search_results                                             *)
(***************************************************************************)
\* lines 342-345
Plan ==
    /\ pc = "plan"
    /\ query_year' = extract_query_year(query)
    /\ norm_query_fts' = normalize_for_fts(query)
    /\ strict_q' = build_fts_queries(normalize_for_fts(query))[1]
    /\ broad_q' = build_fts_queries(normalize_for_fts(query))[2]
    /\ pc' = "run1"
    /\ UNCHANGED << inputs, r1, r2, r3, r5, fusion, final_list, arbiter, executed >>

\* line 349
Run1 ==
    /\ pc = "run1"
    /\ r1' = execute_run_1(conn, strict_q, broad_q, query_year, query_place)
    /\ pc' = "run2"
    /\ executed' = executed \o run_1_lookups(conn, strict_q, broad_q, query_year,
                                              query_place)
    /\ UNCHANGED << inputs, plan, r2, r3, r5, fusion, final_list, arbiter >>

\* line 350; a ValueError of line 208 leaves get_search_results through finally
Run2 ==
    /\ pc = "run2"
    /\ IF run_2_raises(conn, broad_q, query_year, query_author)
       THEN pc' = "raised" /\ r2' = r2
       ELSE pc' = "run3" /\ r2' = execute_run_2(conn, broad_q, query_year, query_author)
    /\ executed' = executed \o run_2_lookups(broad_q, query_year, query_author)
    /\ UNCHANGED << inputs, plan, r1, r3, r5, fusion, final_list, arbiter >>

\* line 351
Run3 ==
    /\ pc = "run3"
    /\ r3' = execute_run_3(conn, broad_q, query)
    /\ pc' = "run4"
    /\ executed' = executed \o run_3_lookups(broad_q)
    /\ UNCHANGED << inputs, plan, r1, r2, r5, fusion, final_list, arbiter >>

\* lines 352-359
Run4 ==
    /\ pc = "run4"
    /\ r5' = execute_run_4(conn, norm_query_fts)
    /\ final_map' = << >>
    /\ all_results' = Refs(1, r1) \o Refs(2, r2) \o Refs(3, r3) \o Refs(4, r5')
    /\ exclude_vd17' = era_filter_on(query_year)
    /\ idx' = 1
    /\ pc' = "fuse"
    /\ executed' = executed \o run_4_lookups(norm_query_fts)
    /\ UNCHANGED << inputs, plan, r1, r2, r3, final_list, arbiter >>

\* lines 361-370, one iteration
FuseStep ==
    /\ pc = "fuse"
    /\ idx <= Len(all_results)
    /\ final_map' = FuseItem(final_map, all_results[idx], exclude_vd17)
    /\ idx' = idx + 1
    /\ UNCHANGED << inputs, plan, r1, r2, r3, r5, all_results, exclude_vd17, pc,
                    final_list, arbiter, executed >>

\* lines 372-376; an empty list is returned as it is
SortFinal ==
    /\ pc = "fuse"
    /\ idx > Len(all_results)
    /\ final_list' = sorted_values(final_map)
    /\ pc' = IF final_map = << >> THEN "done" ELSE "llm"
    /\ UNCHANGED << inputs, plan, r1, r2, r3, r5, fusion, arbiter, executed >>

\* lines 377-379: the arbiter answers with any of its responses
LLMJudgment ==
    /\ pc = "llm"
    /\ \E resp \in Responses(conn) :
          LET top_cands == Map(Obj, Take(final_list, TOP_CANDS))
          IN  /\ response' = resp
              /\ executed' = executed \o llm_lookups(top_cands)
              /\ IF llm_judgment_raises(top_cands, resp)
                 THEN pc' = "raised" /\ winner' = winner
                 ELSE pc' = "promote" /\ winner' = execute_llm_judgment(top_cands, resp)
    /\ UNCHANGED << inputs, plan, r1, r2, r3, r5, fusion, final_list, llm_winner_id >>

\* a faulty reordering: the promoted candidate stays where it was
move_to_front_absent(list, ref, lists) == list

\* a faulty reordering: the promoted candidate is inserted at the front and its
\* old entry is not removed
move_to_front_keep(list, ref, lists) == << ref >> \o list

\* lines 387-388: final_list.remove(item); final_list.insert(0, item).  remove
\* drops the first element that equals item, by value; lists holds the dicts
\* after lines 385-386.
move_to_front(list, ref, lists) ==
    LET values == [j \in DOMAIN list |-> ObjIn(lists, list[j])]
        item == ObjIn(lists, ref)
        j == CHOOSE m \in DOMAIN values :
                 values[m] = item /\ \A k \in 1..(m - 1) : values[k] # item
    IN  << ref >> \o SubSeq(list, 1, j - 1) \o SubSeq(list, j + 1, Len(list))

\* lines 381-391
Promote ==
    /\ pc = "promote"
    /\ pc' = "done"
    /\ IF Truthy(winner) /\ \E i \in DOMAIN final_list : Obj(final_list[i]).vd_id = winner
       THEN LET i == CHOOSE j \in DOMAIN final_list :
                         /\ Obj(final_list[j]).vd_id = winner
                         /\ \A k \in 1..(j - 1) : Obj(final_list[k]).vd_id # winner
                ref == final_list[i]
                lists == [ << r1, r2, r3, r5 >> EXCEPT
                             ![ref[1]][ref[2]] = promoted(Obj(ref)) ]
            IN  /\ r1' = lists[1] /\ r2' = lists[2] /\ r3' = lists[3] /\ r5' = lists[4]
                /\ final_list' = move_to_front(final_list, ref, lists)
                /\ llm_winner_id' = winner
       ELSE /\ UNCHANGED << r1, r2, r3, r5, final_list >>
            /\ llm_winner_id' = IF Truthy(winner) THEN winner ELSE llm_winner_id
    /\ UNCHANGED << inputs, plan, fusion, response, winner, executed >>

Next ==
    \/ Plan
    \/ Run1
    \/ Run2
    \/ Run3
    \/ Run4
    \/ FuseStep
    \/ SortFinal
    \/ LLMJudgment
    \/ Promote

Spec == Init /\ [][Next]_vars

(***************************************************************************)
(* Properties                                                              *)
(***************************************************************************)
\* get_search_results has built its fused list (and may have promoted in it)
Fused == pc \in { "llm", "promote", "done" }

\* the fused list is built and the arbiter has not been asked yet
PreArbiter == pc = "llm"

\* every dict of the four strategies' lists
AllCands == Range(r1) \cup Range(r2) \cup Range(r3) \cup Range(r5)

VD17 == << "V", "D", "1", "7" >>

\* C1: every candidate of r1, r2, r3, r4 (r5 in the code) and of the final list
\* has a score in [0,100], whatever the index holds and whatever the arbiter
\* answers.
C1_ScoresInRange ==
    \A c \in AllCands \cup Range(FinalList) : c.score >= 0 /\ c.score <= 100

\* a returned list with a promoted candidate beside one whose unclamped Run 2
\* score (WRatio + 30) exceeds 100
C1_Witness ==
    /\ pc = "done"
    /\ Truthy(winner)
    /\ Len(final_list) >= 2
    /\ \E c \in Range(r2) : c.score = 100
    /\ \E row \in Range(conn) : row.wratio + 30 > 100

\* C2: no two candidates of the final list share a normalized identifier.
C2_UniqueIds ==
    Fused => \A i, j \in DOMAIN FinalList :
                 i # j => FinalList[i].vd_id_norm # FinalList[j].vd_id_norm

\* one strategy returned an identifier twice, another returned it too, and the
\* arbiter promoted a candidate
C2_Witness ==
    /\ pc = "done"
    /\ Truthy(winner)
    /\ \E i, j \in DOMAIN r1 : i # j /\ r1[i].vd_id_norm = r1[j].vd_id_norm
                               /\ r1[i].vd_id # r1[j].vd_id
                               /\ \E c \in Range(r3) : c.vd_id_norm = r1[i].vd_id_norm

\* C3: a candidate the arbiter promotes has score 100 and is the first element
\* of the final list.
C3_PromotedFirst ==
    pc = "done" /\ Truthy(winner) =>
        /\ FinalList # << >>
        /\ FinalList[1].vd_id = winner
        /\ FinalList[1].score = 100

\* the arbiter promoted the 25th of 26 fused candidates, which now leads
C3_Witness ==
    /\ pc = "done"
    /\ conn = BigCatalog
    /\ winner = BigCatalog[TOP_CANDS].vd_id
    /\ Len(final_list) = TOP_CANDS + 1
    /\ FinalList[1].vd_id = winner
    /\ FinalList[2].vd_id = BigCatalog[1].vd_id

\* C4: for a query year above 1700 no candidate of the final list has an
\* identifier that starts with VD17, in whatever letter case the index stores it.
C4_NoEarlierEra ==
    Fused /\ Truthy(query_year) /\ ToInt(query_year) > 1700 =>
        \A c \in Range(FinalList) : ~upper_startswith(c.vd_id, VD17)

\* a query of 1701 for which the strategies returned both "VD17 3:1" and
\* "vd17-31"
C4_Witness ==
    /\ pc = "done"
    /\ query_year = << "1", "7", "0", "1" >>
    /\ \E c \in AllCands : c.vd_id = << "V","D","1","7"," ","3",":","1" >>
    /\ \E c \in AllCands : c.vd_id = << "v","d","1","7","-","3","1" >>

\* the arbiter's answer promotes nothing: an error, a malformed response, the
\* sentinel, or an identifier that is not among the first 25 of the fused list
ArbiterFailed(resp) ==
    \/ resp.kind \in { "api_error", "not_json", "not_object", "no_key" }
    \/ resp.best_match_vd_id = NONE
    \/ \A i \in 1..Min(TOP_CANDS, Len(final_list)) :
           Obj(final_list[i]).vd_id # resp.best_match_vd_id

\* C5: when the arbiter fails in one of these ways, no exception leaves
\* execute_llm_judgment and the returned list is the fused list, with the same
\* candidates, order, scores and origin tags.
C5_ArbiterFailureKeepsRanking ==
    [][ /\ (pc = "llm" => pc' # "raised" /\ FinalList' = FinalList)
        /\ (pc = "llm" /\ ArbiterFailed(response') => pc' = "promote" /\ winner' = None)
        /\ (pc = "promote" /\ ArbiterFailed(response) =>
                pc' = "done" /\ FinalList' = FinalList
                /\ << r1, r2, r3, r5 >>' = << r1, r2, r3, r5 >>) ]_vars

\* the arbiter named the 26th fused candidate, which it was not shown, and the
\* list came back as fused
C5_Witness ==
    /\ pc = "done"
    /\ conn = BigCatalog
    /\ response.kind = "object"
    /\ response.best_match_vd_id = BigCatalog[TOP_CANDS + 1].vd_id
    /\ Len(final_list) = TOP_CANDS + 1
    /\ FinalList[TOP_CANDS + 1].vd_id = response.best_match_vd_id
    /\ ~Truthy(winner)

\* the union of line 355 with the strategies' lists taken in the order p
UnionIn(p) ==
    LET lists == << r1, r2, r3, r5 >>
    IN  Refs(p[1], lists[p[1]]) \o Refs(p[2], lists[p[2]])
          \o Refs(p[3], lists[p[3]]) \o Refs(p[4], lists[p[4]])

\* the fused, sorted list for the order p, as (normalized identifier, score)
Pairs(refs) == [i \in DOMAIN refs |-> << Obj(refs[i]).vd_id_norm, Obj(refs[i]).score >>]

FusedIn(p) == Pairs(sorted_values(Fuse(UnionIn(p), exclude_vd17)))

\* the position at which the key vid is first produced in the order p
FirstSeen(p, vid) ==
    LET u == UnionIn(p)
    IN  CHOOSE i \in DOMAIN u :
            /\ Obj(u[i]).vd_id_norm = vid
            /\ \A k \in 1..(i - 1) : Obj(u[k]).vd_id_norm # vid

\* C6: fusing the strategies' lists in any other strategy order gives the same
\* candidates with the same scores in the same descending sequence of scores, and
\* candidates of equal score stand in the order in which their identifiers were
\* first produced in that strategy order.
C6_FusionOrderIndependent ==
    PreArbiter =>
        \A p \in Permutations(1..4) :
            LET f == FusedIn(p)
                g == Pairs(final_list)
            IN  /\ Len(f) = Len(g)
                /\ Range(f) = Range(g)
                /\ \A i \in DOMAIN f : f[i][2] = g[i][2]
                /\ \A i, j \in DOMAIN f :
                       i < j /\ f[i][2] = f[j][2] =>
                           FirstSeen(p, f[i][1]) < FirstSeen(p, f[j][1])

\* two candidates tie and another strategy order lists them the other way
\* round, while some identifier was scored differently by two strategies
C6_Witness ==
    /\ PreArbiter
    /\ \E p \in Permutations(1..4) : FusedIn(p) # Pairs(final_list)
    /\ \E a, b \in AllCands : a.vd_id_norm = b.vd_id_norm /\ a.score # b.score

\* C7: the final list is in non-increasing score order, before the arbiter is
\* asked, when it promotes nothing and after it has promoted a candidate.
C7_SortedByScore ==
    Fused => \A i, j \in DOMAIN FinalList :
                 i < j => FinalList[i].score >= FinalList[j].score

\* a promoted candidate that was not the first of the fused list leads a list
\* of three or more candidates whose scores differ
C7_Witness ==
    /\ pc = "done"
    /\ Truthy(winner)
    /\ Len(final_list) >= 3
    /\ final_list[1] # sorted_values(final_map)[1]
    /\ \E i \in 2..(Len(final_list) - 1) : FinalList[i].score > FinalList[i + 1].score

\* the scores the four strategies gave to the key vid
KeyScores(vid) ==
    { Obj(all_results[i]).score :
        i \in { k \in DOMAIN all_results : Obj(all_results[k]).vd_id_norm = vid } }

MaxOf(S) == CHOOSE m \in S : \A n \in S : n <= m

\* the keys that the era filter lets through
SurvivingKeys ==
    { Obj(all_results[i]).vd_id_norm :
        i \in { k \in DOMAIN all_results :
                  ~(exclude_vd17
                    /\ startswith(Obj(all_results[k]).vd_id_norm, << "v","d","1","7" >>)) } }

\* C8: every surviving key has exactly one candidate in the fused list, whose
\* score is the maximum of the scores the strategies gave to that key; and while
\* the loop runs, a key stays recorded and its recorded score never decreases.
C8_KeepsHighestScore ==
    /\ [](PreArbiter =>
            \A vid \in SurvivingKeys :
                /\ Cardinality({ i \in DOMAIN final_list :
                                   Obj(final_list[i]).vd_id_norm = vid }) = 1
                /\ \A i \in DOMAIN final_list :
                       Obj(final_list[i]).vd_id_norm = vid =>
                           Obj(final_list[i]).score = MaxOf(KeyScores(vid)))
    /\ [][ pc = "fuse" =>
             \A i \in DOMAIN final_map :
                 /\ i \in DOMAIN final_map'
                 /\ final_map'[i].vid = final_map[i].vid
                 /\ Obj(final_map'[i].r).score >= Obj(final_map[i].r).score ]_vars

\* a key whose later candidate scored higher than an earlier one, so that the
\* recorded candidate was replaced
C8_Witness ==
    /\ PreArbiter
    /\ \E i, j \in DOMAIN all_results :
           /\ i < j
           /\ Obj(all_results[i]).vd_id_norm = Obj(all_results[j]).vd_id_norm
           /\ Obj(all_results[i]).score < Obj(all_results[j]).score
           /\ Obj(all_results[j]).vd_id_norm \in SurvivingKeys

\* the strategies whose candidate for the key vid has the key's highest score
Winners(vid) ==
    { Obj(all_results[i]).source :
        i \in { k \in DOMAIN all_results :
                  /\ Obj(all_results[k]).vd_id_norm = vid
                  /\ Obj(all_results[k]).score = MaxOf(KeyScores(vid)) } }

\* the strategies an origin tag names
Named(source) == { s \in { "RUN_1", "RUN_2", "RUN_3", "RUN_4" } : source = s }

StrategyNo(source) ==
    CHOOSE k \in 1..4 : source = << "RUN_1", "RUN_2", "RUN_3", "RUN_4" >>[k]

\* C9 as stated: the origin tag of a fused candidate names the strategy that
\* produced the key's highest score, and all of them when several did.
C9_TagNamesAllWinners ==
    PreArbiter =>
        \A i \in DOMAIN final_list :
            Named(Obj(final_list[i]).source) = Winners(Obj(final_list[i]).vd_id_norm)

\* C9 as amended: the origin tag of a fused candidate names one strategy that
\* produced the key's highest score, and when several did, the first of them in
\* the order Strategy 1, 2, 3, 4.
C9_TagNamesFirstWinner ==
    PreArbiter =>
        \A i \in DOMAIN final_list :
            LET c == Obj(final_list[i])
            IN  /\ c.source \in Winners(c.vd_id_norm)
                /\ \A w \in Winners(c.vd_id_norm) : StrategyNo(c.source) <= StrategyNo(w)

\* two strategies gave a key the same highest score, a third a lower one
C9_Witness ==
    /\ PreArbiter
    /\ \E i \in DOMAIN final_list :
           /\ Cardinality(Winners(Obj(final_list[i]).vd_id_norm)) >= 2
           /\ "RUN_1" \notin Winners(Obj(final_list[i]).vd_id_norm)
           /\ Cardinality(KeyScores(Obj(final_list[i]).vd_id_norm)) >= 2

\* Run 2 has returned
Run2Returned == pc \notin { "plan", "run1", "run2", "raised" }

\* C10: Run 2 returns candidates only if the broad expression is not empty, the
\* query has a year and the query author, normalized for fuzzy matching, has at
\* least 4 characters; without an author it returns nothing.
C10_Run2NeedsAuthor ==
    Run2Returned =>
        /\ r2 # << >> =>
               /\ build_fts_queries(normalize_for_fts(query))[2] # << >>
               /\ extract_query_year(query) # None
               /\ bibl_item.author # None
               /\ Len(normalize_for_fuzz(bibl_item.author)) >= 4
        /\ bibl_item.author = None => r2 = << >>

\* no author hint, and the index holds an anonymous record of the query's year
\* that the broad expression matches and whose title matches perfectly
C10_Witness ==
    /\ pc = "done"
    /\ bibl_item.author = None
    /\ Truthy(query_year)
    /\ Truthy(broad_q)
    /\ \E row \in Range(conn) :
           /\ Matches(row, broad_q)
           /\ row.year = query_year
           /\ ~Truthy(row.clean_author)
           /\ row.wratio = 100
           /\ Truthy(row.vd_id)
    /\ r2 = << >>

\* the planner keeps no token of the index-normalized query
NoTokenSurvives ==
    build_fts_queries(normalize_for_fts(query)) = << << >>, << >> >>

\* the statements Strategies 1, 2 and 3 hand to the index
Lookups123 == { "RUN_1_STRICT", "RUN_1_BROAD", "RUN_2", "RUN_3" }

\* execute_run_4 has returned
Run4Returned == pc \in { "fuse", "llm", "promote", "done" }

\* C11: when no token of the index-normalized query survives the planner's
\* filter, the strict and the broad expression are empty and Strategies 1, 2
\* and 3 return the empty list, issue no index lookup and do not raise; when
\* all four strategies yield nothing, the final list is empty, the arbiter is
\* not called and no error is raised.
C11_EmptyPlanNoOps ==
    /\ (pc # "plan" /\ NoTokenSurvives) =>
           /\ strict_q = << >> /\ broad_q = << >>
           /\ r1 = << >> /\ r2 = << >> /\ r3 = << >>
           /\ \A i \in DOMAIN executed : executed[i] \notin Lookups123
           /\ pc # "raised"
    /\ (Run4Returned /\ r1 = << >> /\ r2 = << >> /\ r3 = << >> /\ r5 = << >>) =>
           /\ final_map = << >>
           /\ pc \in { "fuse", "done" }
           /\ response.kind = "none"
           /\ "LLM" \notin Range(executed)
           /\ pc = "done" => final_list = << >> /\ llm_winner_id = << "-" >>

\* a query with an author hint and a year of which no token survives, on an
\* index that holds a record every expression would match: the call has
\* returned the empty list without a single statement
C11_Witness ==
    /\ pc = "done"
    /\ NoTokenSurvives
    /\ bibl_item.author # None
    /\ Truthy(query_year)
    /\ \E row \in Range(conn) : Truthy(row.vd_id) /\ row.tsr = 100
    /\ final_list = << >>
    /\ executed = << >>

\* a record whose year is empty or not a decimal number
MalformedYear(row) == ~(Truthy(row.year) /\ isdigit(row.year))

\* the lists of Strategies 1, 3 and 4 as they were returned, before a promotion
\* changes a dict of theirs
Run1Fresh == pc \in { "run2", "run3", "run4", "fuse", "llm", "promote", "raised" }

Run3Fresh == pc \in { "run4", "fuse", "llm", "promote" }

Run4Fresh == pc \in { "fuse", "llm", "promote" }

\* a list holds a candidate for the record with the given score
Holds(list, row, score) ==
    \E i \in DOMAIN list : list[i].vd_id = row.vd_id /\ list[i].score = Min(score, 100)

\* In Strategies 1, 3 and 4 a record with a malformed year that the lookup
\* returns is scored without any year bonus or penalty and accepted at the
\* strategy's threshold.
Run134KeepMalformed ==
    \A row \in Range(conn) :
        (MalformedYear(row) /\ Truthy(row.vd_id)) =>
            LET s1 == row.tsr
                      + (IF Truthy(row.clean_author) /\ row.pr_author >= 90
                         THEN AUTHOR_BONUS ELSE 0)
                      + (IF Truthy(query_place) /\ Truthy(row.place) /\ row.pr_place > 85
                         THEN PLACE_BONUS ELSE 0)
                s3 == row.tsr
                      + ENTITY_BONUS * Cardinality({ i \in DOMAIN entities(query) :
                            Map(ToLower, entities(query)[i]) \in row.label_has })
                      + (IF upper_startswith(row.vd_id, << "V", "D", "1", "8" >>)
                         THEN VD18_PREF_BONUS ELSE 0)
            IN  /\ (Run1Fresh /\ Truthy(strict_q) /\ Matches(row, strict_q)
                    /\ s1 >= MIN_ACCEPT_SCORE) => Holds(r1, row, s1)
                /\ (Run3Fresh /\ Truthy(broad_q) /\ Matches(row, broad_q)
                    /\ s3 >= MIN_ACCEPT_SCORE) => Holds(r3, row, s3)
                /\ (Run4Fresh /\ \E i \in DOMAIN run_4_tokens(norm_query_fts) :
                                     run_4_tokens(norm_query_fts)[i] \in row.terms
                    /\ row.tsr >= 65) => Holds(r5, row, row.tsr)

\* C12: a catalog record with a non-numeric or empty year never makes a
\* strategy fail: in each of the four strategies it only loses the
\* year-dependent bonus or penalty and stays eligible, and execute_run_2 does
\* not raise on a row whose year is not a decimal number.
C12_MalformedYearNeverFails ==
    /\ Run134KeepMalformed
    /\ pc # "raised"

\* the call has ended in the ValueError of line 208: the index holds an
\* anonymous record whose year is not a number but lies, as text, in the
\* window of Run 2, and whose title holds the query's author
C12_Witness ==
    /\ pc = "raised"
    /\ r2 = << >>
    /\ final_list = << >>
    /\ \E row \in Range(conn) :
           /\ row.year = << "1", "6", "x", "x" >>
           /\ ~Truthy(row.clean_author)
           /\ Matches(row, broad_q)
           /\ row.pr_qauth > 90
           /\ TextLeq(ToStr(ToInt(query_year) - 3), row.year)
           /\ TextLeq(row.year, ToStr(ToInt(query_year) + 3))
    /\ Len(normalize_for_fuzz(query_author)) >= 4

\* the candidates of Run 1's strict pass and of its broad pass, for the call
\* at hand
StrictCands == strict_pass(conn, strict_q, query_year, query_place)

BroadCands == process(sql_search(conn, broad_q, None), FALSE, query_year, query_place)

\* Run 1 has executed its broad pass
BroadPassRan == "RUN_1_BROAD" \in Range(executed)

Ids(list) == { list[i].vd_id_norm : i \in DOMAIN list }

\* the scores a list holds for a normalized identifier
ScoresOf(list, vid) == { list[i].score : i \in { j \in DOMAIN list : list[j].vd_id_norm = vid } }

\* the record of a strict-pass candidate lies within 1 year of the query year
WithinOne(row) ==
    /\ query_year # None
    /\ Abs(ToInt(query_year) - ToInt(row.year)) <= 1

\* the records with a numeric year that the strict pass made a candidate of
StrictDated(S) ==
    { row \in Range(conn) : /\ Truthy(row.year) /\ isdigit(row.year)
                            /\ \E i \in DOMAIN S : S[i].vd_id = row.vd_id }

\* the part of C13 that does not speak of years, for the strict-pass list S
\* and the broad-pass list B
BroadPassRule(S, B) ==
    LET ids == Ids(S)
        new == SelectSeq(B, LAMBDA c : c.vd_id_norm \notin ids)
    IN  /\ BroadPassRan <=>
               /\ broad_q # << >>
               /\ \A i \in DOMAIN S : S[i].score < 95
        /\ Range(S) \subseteq Range(r1)
        /\ Range(r1) \subseteq Range(S) \cup (IF BroadPassRan THEN Range(new) ELSE { })
        /\ \A vid \in ids : ScoresOf(r1, vid) = ScoresOf(S, vid)
        /\ Len(r1) = Len(S) + (IF BroadPassRan THEN Len(new) ELSE 0)

\* C13 as stated: in Strategy 1 the broad pass is executed exactly when the
\* broad expression is non-empty and the strict pass produced no candidate or
\* its best score is below 95; a broad-pass candidate is added only if its
\* normalized identifier was not produced by the strict pass, every strict-pass
\* candidate keeps its strict-pass score, and every strict-pass candidate whose
\* record has a numeric year lies within 1 year of the query year.
C13_StrictWithinOneYear ==
    Run1Fresh =>
        LET S == StrictCands
            B == BroadCands
        IN  /\ BroadPassRule(S, B)
            /\ \A row \in StrictDated(S) : WithinOne(row)

\* C13, amended: the same, the year bound holding when the query has a year
\* signal; without one the strict pass rejects no record for its year.
C13_StrictWithinOneYearOfYearSignal ==
    Run1Fresh =>
        LET S == StrictCands
            B == BroadCands
        IN  /\ BroadPassRule(S, B)
            /\ query_year # None => \A row \in StrictDated(S) : WithinOne(row)
            /\ query_year = None =>
                   \A row \in Range(conn) :
                       (Truthy(strict_q) /\ Matches(row, strict_q) /\ Truthy(row.vd_id)
                        /\ row.tsr >= MIN_ACCEPT_SCORE)
                           => \E i \in DOMAIN S : S[i].vd_id = row.vd_id

\* a query with a year: the strict pass kept a record of that year with a best
\* score below 95 and rejected a matching record 50 years off; the broad pass
\* ran, its candidate for the identifier the strict pass had found was left
\* out, and the record 50 years off was added
C13_Witness ==
    /\ pc = "run2"
    /\ Truthy(query_year)
    /\ BroadPassRan
    /\ LET S == StrictCands
           B == BroadCands
       IN  /\ S # << >>
           /\ \E row \in Range(conn) :
                  /\ Matches(row, strict_q) /\ Truthy(row.vd_id) /\ isdigit(row.year)
                  /\ Truthy(row.year) /\ ~WithinOne(row)
                  /\ \A i \in DOMAIN S : S[i].vd_id # row.vd_id
                  /\ \E j \in DOMAIN r1 : r1[j].vd_id = row.vd_id
           /\ Ids(B) \cap Ids(S) # { }
           /\ Len(r1) > Len(S)

\* a sequence without its k-th element
Without(seq, k) == SubSeq(seq, 1, k - 1) \o SubSeq(seq, k + 1, Len(seq))

\* the positions <<k, j>> of the strategies' lists whose dict differs between
\* two values of << r1, r2, r3, r5 >>
Changed(before, after) ==
    { ref \in UNION { { << k, j >> : j \in DOMAIN before[k] } : k \in 1..4 } :
          after[ref[1]][ref[2]] # before[ref[1]][ref[2]] }

\* C14: an arbiter promotion changes only the promoted candidate.  The final
\* list keeps its length and its set of normalized identifiers, the promoted
\* candidate occurs exactly once, all other candidates keep their score, origin
\* tag and relative order, and the promoted candidate is one of the first 25 of
\* the fused list.
C14_PromotionChangesOnlyPromoted ==
    [][ (pc = "promote" /\ Truthy(winner)) =>
            LET old == FinalList
                new == FinalList'
            IN  /\ Len(new) = Len(old)
                /\ Ids(new) = Ids(old)
                /\ Cardinality({ i \in DOMAIN new : new[i].vd_id = winner }) = 1
                /\ Cardinality({ i \in DOMAIN new :
                                   new[i].vd_id_norm = normalize_db_vd_id(winner) }) = 1
                /\ \E k \in 1..Min(TOP_CANDS, Len(old)) :
                       /\ old[k].vd_id = winner
                       /\ new[1].vd_id = winner
                       /\ new[1].vd_id_norm = old[k].vd_id_norm
                       /\ Tail(new) = Without(old, k)
                /\ Len(r1') = Len(r1) /\ Len(r2') = Len(r2)
                /\ Len(r3') = Len(r3) /\ Len(r5') = Len(r5)
                /\ Cardinality(Changed(<< r1, r2, r3, r5 >>, << r1, r2, r3, r5 >>')) <= 1
                /\ \A ref \in Changed(<< r1, r2, r3, r5 >>, << r1, r2, r3, r5 >>') :
                       Obj(ref).vd_id = winner /\ final_list'[1] = ref ]_vars

\* the arbiter promoted the 13th of 26 fused candidates: it leads, the former
\* first is second, the former last is still last and the rest is in
\* descending order of score
C14_Witness ==
    /\ pc = "done"
    /\ conn = BigCatalog
    /\ winner = BigCatalog[13].vd_id
    /\ Len(final_list) = TOP_CANDS + 1
    /\ FinalList[1].vd_id = winner
    /\ FinalList[1].source \in { "RUN_1+LLM", "RUN_3+LLM", "RUN_4+LLM" }
    /\ FinalList[2].vd_id = BigCatalog[1].vd_id
    /\ FinalList[14].vd_id = BigCatalog[14].vd_id
    /\ FinalList[TOP_CANDS + 1].vd_id = BigCatalog[TOP_CANDS + 1].vd_id
    /\ \A i \in 2..TOP_CANDS : FinalList[i].score >= FinalList[i + 1].score

====
